---- MODULE Spec2Model ----
(***************************************************************************)
(* YouTube Hot Finder (src/app.py): the quota-aware collection pipeline.   *)
(* A Streamlit session: the quota ledger, the rate-limited gateway yt_get, *)
(* the pagination walker fetch_videos_by_search, the batched detail and    *)
(* channel lookups, and the main run that publishes results_df.            *)
(*                                                                         *)
(* Texts are sequences of one-character strings, so that lower-casing,     *)
(* substring tests and prefix tests are computed, not assumed.             *)
(***************************************************************************)
EXTENDS Integers, Sequences, FiniteSets, TLC

VARIABLES
  q_calls,          \* st.session_state["q_calls"]: calls per endpoint kind
  q_units,          \* st.session_state["q_units"]: cumulative quota units
  q_log,            \* st.session_state["q_log"]: <<endpoint, units>> entries
  api_waiting,      \* st.session_state["api_waiting"]
  api_wait_reason,  \* st.session_state["api_wait_reason"]
  results_df,       \* st.session_state["results_df"]: the published rows
  payload_cache,    \* st.session_state["payload_cache"]
  pc,               \* position of the script
  run,              \* locals of the main run
  wk,               \* locals of fetch_videos_by_search
  bt,               \* locals of fetch_video_details / fetch_channel_subs
  gw,               \* locals of yt_get
  r,                \* the last HTTP response yt_get received
  reply,            \* the value the last yt_get returned
  outcome,          \* how the last script run ended
  reqs,             \* HTTP requests issued in the session
  fn                \* a function of the module called on its own

vars == <<q_calls, q_units, q_log, api_waiting, api_wait_reason, results_df,
          payload_cache, pc, run, wk, bt, gw, r, reply, outcome, reqs, fn>>

ledger == <<q_calls, q_units, q_log>>

-----------------------------------------------------------------------------
(* Bounds of the model *)

MaxRequests == 6

-----------------------------------------------------------------------------
(* Text *)

UpperAlpha == <<"A","B","C","D","E","F","G","H","I","J","K","L","M",
                "N","O","P","Q","R","S","T","U","V","W","X","Y","Z">>

LowerAlpha == <<"a","b","c","d","e","f","g","h","i","j","k","l","m",
                "n","o","p","q","r","s","t","u","v","w","x","y","z">>

LowerChar(c) ==
  IF \E i \in 1..Len(UpperAlpha) : UpperAlpha[i] = c
  THEN LowerAlpha[CHOOSE i \in 1..Len(UpperAlpha) : UpperAlpha[i] = c]
  ELSE c

\* str.lower()
Lower(s) == [i \in 1..Len(s) |-> LowerChar(s[i])]

\* k in t
Contains(k, t) ==
  \E i \in 0..(Len(t) - Len(k)) : SubSeq(t, i + 1, i + Len(k)) = k

\* s.startswith(p)
StartsWith(s, p) == Len(s) >= Len(p) /\ SubSeq(s, 1, Len(p)) = p

S_search == <<"s","e","a","r","c","h">>
S_videos == <<"v","i","d","e","o","s">>
S_channels == <<"c","h","a","n","n","e","l","s">>

K_quota == <<"q","u","o","t","a">>
K_daily == <<"d","a","i","l","y">>
K_rate == <<"r","a","t","e">>
K_exceed == <<"e","x","c","e","e","d">>

T_Sep == <<":"," ">>
T_NotFound == <<"N","o","t"," ","F","o","u","n","d">>
T_RateLimit == <<"R","a","t","e"," ","L","i","m","i","t">>
T_EmptyObj == <<"{","}">>
T_DailyLimit == <<"D","a","i","l","y"," ","L","i","m","i","t">>
T_MsgOnlyRaw == <<"{","\"","e","r","r","o","r","\"",":","{","\"","m","e","s","s","a","g","e","\"",":","\"","D","a","i","l","y"," ","L","i","m","i","t","\"","}","}">>
T_EmptyErrorsRaw == <<"{","\"","e","r","r","o","r","\"",":","{","\"","e","r","r","o","r","s","\"",":","[","]",",","\"","m","e","s","s","a","g","e","\"",":","\"","q","u","o","t","a","\"","}","}">>
T_quotaExceeded == <<"q","u","o","t","a","E","x","c","e","e","d","e","d">>
T_ReasonQuotaRaw == <<"{","\"","e","r","r","o","r","\"",":","{","\"","e","r","r","o","r","s","\"",":","[","{","\"","r","e","a","s","o","n","\"",":","\"","q","u","o","t","a","E","x","c","e","e","d","e","d","\"","}","]","}","}">>
T_forbidden == <<"f","o","r","b","i","d","d","e","n">>
T_ReasonForbiddenRaw == <<"{","\"","e","r","r","o","r","\"",":","{","\"","e","r","r","o","r","s","\"",":","[","{","\"","r","e","a","s","o","n","\"",":","\"","f","o","r","b","i","d","d","e","n","\"","}","]",",","\"","m","e","s","s","a","g","e","\"",":","\"","q","u","o","t","a","\"","}","}">>

-----------------------------------------------------------------------------
(* Quota ledger *)

\* _quota_units_for without its channels case
QuotaUnitsNoChannels(endpoint_name) ==
  IF StartsWith(endpoint_name, S_search) THEN 100
  ELSE IF StartsWith(endpoint_name, S_videos) THEN 1
  ELSE 0

_quota_units_for(endpoint_name) ==
  IF StartsWith(endpoint_name, S_search) THEN 100
  ELSE IF StartsWith(endpoint_name, S_videos) THEN 1
  ELSE IF StartsWith(endpoint_name, S_channels) THEN 1
  ELSE 0

\* q_calls after _record_quota(endpoint_name, path)
RecordedCalls(endpoint_name) ==
  IF StartsWith(endpoint_name, S_search)
    THEN [q_calls EXCEPT !.search = @ + 1]
  ELSE IF StartsWith(endpoint_name, S_videos)
    THEN [q_calls EXCEPT !.videos = @ + 1]
  ELSE IF StartsWith(endpoint_name, S_channels)
    THEN [q_calls EXCEPT !.channels = @ + 1]
  ELSE q_calls

\* _record_quota without the log entry
RecordQuotaNoLog(endpoint_name) ==
  /\ q_calls' = RecordedCalls(endpoint_name)
  /\ q_units' = q_units + _quota_units_for(endpoint_name)
  /\ q_log' = q_log

_record_quota(endpoint_name) ==
  LET units == _quota_units_for(endpoint_name) IN
    /\ q_calls' = RecordedCalls(endpoint_name)
    /\ q_units' = q_units + units
    /\ q_log' = Append(q_log, <<endpoint_name, units>>)

-----------------------------------------------------------------------------
(* HTTP responses: status, raw text, and what r.json() gives.              *)
(* is_json: r.json() parses to an object; has_error: it has an "error"     *)
(* object; has_errors: that object has an "errors" list, whose entries'    *)
(* "reason" values are errors (<<>> for an entry without one); message:    *)
(* the error object's "message" (<<>> when absent).                        *)

Resp(status, text, is_json, has_error, has_errors, errors, message) ==
  [status |-> status, text |-> text, is_json |-> is_json,
   has_error |-> has_error, has_errors |-> has_errors,
   errors |-> errors, message |-> message]

NoResp == Resp(0, <<>>, FALSE, FALSE, FALSE, <<>>, <<>>)

OkResp == Resp(200, T_EmptyObj, TRUE, FALSE, FALSE, <<>>, <<>>)

\* the bodies a failed request may carry, by shape
B_text_plain == Resp(0, T_NotFound, FALSE, FALSE, FALSE, <<>>, <<>>)
B_text_rate == Resp(0, T_RateLimit, FALSE, FALSE, FALSE, <<>>, <<>>)
B_no_error == Resp(0, T_EmptyObj, TRUE, FALSE, FALSE, <<>>, <<>>)
B_message == Resp(0, T_MsgOnlyRaw, TRUE, TRUE, FALSE, <<>>, T_DailyLimit)
B_no_suberror == Resp(0, T_EmptyErrorsRaw, TRUE, TRUE, TRUE, <<>>, K_quota)
B_reason_quota ==
  Resp(0, T_ReasonQuotaRaw, TRUE, TRUE, TRUE, <<T_quotaExceeded>>, <<>>)
B_reason_other ==
  Resp(0, T_ReasonForbiddenRaw, TRUE, TRUE, TRUE, <<T_forbidden>>, K_quota)

WithStatus(b, s) == [b EXCEPT !.status = s]

\* the failed responses of the model: every shape under 404, and under
\* 403 / 429 the shapes that tell the branches of the retry test apart
FailResponses ==
  { WithStatus(b, 404) :
      b \in {B_text_plain, B_text_rate, B_no_error, B_message, B_no_suberror,
             B_reason_quota, B_reason_other} }
  \cup { WithStatus(b, 403) : b \in {B_reason_quota, B_reason_other,
                                     B_no_suberror, B_no_error} }
  \cup { WithStatus(b, 429) : b \in {B_text_rate, B_message} }

-----------------------------------------------------------------------------
(* yt_get: the rate-limited gateway *)

max_retries == 2

\* wait_minutes is a float; the model holds it in units of 1/WaitDenom minute
WaitDenom == 2 * 60

\* int(wait_minutes * 60)
\* the whole seconds of the wait, rounded up
WaitSecsRoundUp(wait_minutes) ==
  (wait_minutes * 60 + WaitDenom - 1) \div WaitDenom

WaitSecs(wait_minutes) == (wait_minutes * 60) \div WaitDenom

\* body.get("error", {}).get("errors", [{}])
ErrorsOf(resp) ==
  IF resp.is_json /\ resp.has_error /\ resp.has_errors
  THEN resp.errors
  ELSE << <<>> >>

\* body.get("error", {}).get("message", "")
MessageOf(resp) ==
  IF resp.is_json /\ resp.has_error THEN resp.message ELSE <<>>

\* errors[0] raises IndexError on an empty list
RaisesIndexError(resp) == Len(ErrorsOf(resp)) = 0

\* (errors[0].get("reason")) or message or r.text
ErrReason(resp) ==
  LET reason == ErrorsOf(resp)[1] IN
    IF reason # <<>> THEN reason
    ELSE IF MessageOf(resp) # <<>> THEN MessageOf(resp)
    ELSE resp.text

QuotaWords == {K_quota, K_daily, K_rate, K_exceed}

\* any(k in str(err_reason).lower() for k in [...])
HasQuotaWord(err_reason) ==
  \E k \in QuotaWords : Contains(k, Lower(err_reason))

\* the retry test without its status condition
ShouldRetryAnyStatus(status, err_reason, wait_minutes, tries) ==
  /\ HasQuotaWord(err_reason)
  /\ wait_minutes > 0
  /\ tries <= max_retries

\* the retry test without its bound on tries
ShouldRetryForever(status, err_reason, wait_minutes, tries) ==
  /\ status \in {403, 429}
  /\ HasQuotaWord(err_reason)
  /\ wait_minutes > 0

\* the condition of the wait-and-retry branch
ShouldRetry(status, err_reason, wait_minutes, tries) ==
  /\ status \in {403, 429}
  /\ HasQuotaWord(err_reason)
  /\ wait_minutes > 0
  /\ tries <= max_retries

GwOff ==
  [st |-> "off", endpoint |-> <<>>, params |-> [type |-> "none"],
   wait_minutes |-> 0, tries |-> 0, left |-> 0, issued |-> 0]

\* entering yt_get(endpoint, params, api_key, wait_minutes)
yt_get(endpoint, params, wait_minutes) ==
  /\ gw' = [st |-> "send", endpoint |-> endpoint, params |-> params,
            wait_minutes |-> wait_minutes, tries |-> 0, left |-> 0,
            issued |-> 0]
  /\ r' = NoResp

\* how a script run ended: kind, and for an exception out of yt_get the
\* status and text it carries, the stage of the run and the failed attempts
NoOutcome ==
  [kind |-> "none", status |-> 0, text |-> <<>>, stage |-> "", tries |-> 0]

NoReply == [items |-> <<>>, next |-> ""]

\* no function is called on its own
NoFn == [name |-> "none"]

-----------------------------------------------------------------------------
(* What the API may answer with status 200 *)

T_UC1 == <<"U","C","1">>
T_UC2 == <<"U","C","2">>
T_handle == <<"@","a">>
T_cat == <<"c","a","t">>

\* the videos the API knows: identifiers 1, 2, ...; who uploaded each
ChannelOf(v) == IF v % 2 = 1 THEN T_UC1 ELSE T_UC2

\* statistics.viewCount, and the whole hours since snippet.publishedAt
\* (0: published this instant); videos 1 and 3 agree on both, 1 and 2 on
\* views per hour only
ViewsOf(v) ==
  IF v % 5 = 0 THEN 1
  ELSE IF v % 2 = 1 THEN 200
  ELSE IF v % 4 = 2 THEN 100
  ELSE 300

AgeOf(v) == IF v % 5 = 0 THEN 0 ELSE (v % 2) + 1

T_PT0S == <<"P","T","0","S">>
T_PT30S == <<"P","T","3","0","S">>
T_PT1M == <<"P","T","1","M">>
T_PT1H1M1S == <<"P","T","1","H","1","M","1","S">>
T_P1D == <<"P","1","D">>

\* contentDetails.duration; has_duration says whether the item has one
DurationOf(v) ==
  CASE v % 5 = 1 -> T_PT1M
    [] v % 5 = 2 -> T_PT30S
    [] v % 5 = 3 -> T_P1D
    [] OTHER -> T_PT1H1M1S

T_Cat_video == <<"C","a","t"," ","v","i","d","e","o">>
T_dog == <<"d","o","g">>

TitleOf(v) == IF v % 3 = 0 THEN T_Cat_video ELSE T_dog

DescriptionOf(v) == IF v % 4 = 0 THEN T_cat ELSE <<>>

TagsOf(v) == IF v % 5 = 1 THEN <<T_dog, T_cat>> ELSE <<>>

\* a videos.list item
Detail(v) ==
  [id |-> v, channelId |-> ChannelOf(v), channelTitle |-> ChannelOf(v),
   title |-> TitleOf(v), description |-> DescriptionOf(v),
   tags |-> TagsOf(v), views |-> ViewsOf(v), age_hours |-> AgeOf(v),
   has_duration |-> v % 5 # 0, duration |-> DurationOf(v)]

PageA == <<1, 2, 3>>
PageB == <<3, 4, 5>>

Pages == {<<>>, PageA, PageB}

\* the cursor of the page after the one asked for with cursor t
NextToken(t) == IF t = "T1" THEN "T2" ELSE "T1"

\* nextPageToken of an answer: none, or the cursor of the next page
PageTokens == {"", NextToken(gw.params.pageToken)}

\* search.list, type=video: a page of video ids and maybe a nextPageToken
SearchAnswers == { [items |-> p, next |-> t] : p \in Pages, t \in PageTokens }

\* search.list, type=channel, maxResults=1: nothing, or one item whose
\* snippet.channelId and id.channelId may each be absent (<<>>)
ResolveAnswers ==
  { [items |-> <<>>, next |-> ""],
    [items |-> <<[snippet |-> T_UC1, id |-> <<>>]>>, next |-> ""],
    [items |-> <<[snippet |-> <<>>, id |-> T_UC1]>>, next |-> ""],
    [items |-> <<[snippet |-> <<>>, id |-> <<>>]>>, next |-> ""] }

\* videos.list: an item per requested id, or all but the first (removed video)
VideoAnswers(batch) ==
  LET all == [i \in 1..Len(batch) |-> Detail(batch[i])] IN
    { [items |-> all, next |-> ""], [items |-> Tail(all), next |-> ""] }

\* channels.list: an item per requested id with a subscriberCount; or the
\* first channel hides its count; or the first channel is not returned
ChannelAnswers(batch) ==
  LET all == [i \in 1..Len(batch) |->
                [id |-> batch[i], has_count |-> TRUE, subscriberCount |-> 1000]]
  IN { [items |-> all, next |-> ""],
       [items |-> [all EXCEPT ![1].has_count = FALSE], next |-> ""],
       [items |-> Tail(all), next |-> ""] }

Answers ==
  IF gw.endpoint = S_search
  THEN IF gw.params.type = "channel" THEN ResolveAnswers ELSE SearchAnswers
  ELSE IF gw.endpoint = S_videos THEN VideoAnswers(gw.params.id)
  ELSE ChannelAnswers(gw.params.id)

-----------------------------------------------------------------------------
(* Frames *)

\* the values of the filter widgets the run reads
Filters(ignore_filters, form_factor, shorts_sec, min_vph, strict_on, strict_mode_key) ==
  [ignore_filters |-> ignore_filters, form_factor |-> form_factor,
   shorts_sec |-> shorts_sec, min_vph |-> min_vph, strict_on |-> strict_on,
   strict_mode_key |-> strict_mode_key]

NoRun ==
  [run_mode |-> "none", filters |-> Filters(FALSE, "both", 0, 0, FALSE, "any"), input_channels |-> <<>>, base_keywords |-> <<>>,
   target_regions |-> <<>>, per_channel_max |-> 0, per_keyword_max |-> 0,
   wait_minutes |-> 0, out |-> <<>>, ti |-> 0, channels |-> <<>>,
   gi |-> 0, ci |-> 0, collected_ids |-> {}, details |-> <<>>,
   subs_map |-> <<>>, walks |-> <<>>, lookups |-> <<>>]

NoParams == [type |-> "none"]

WkOff ==
  [st |-> "off", query |-> <<>>, channel_id |-> <<>>, region_code |-> "",
   relevance_language |-> "", published_after |-> "", max_results |-> 0,
   order |-> "", wait_minutes |-> 0, effective_order |-> "", ids |-> <<>>,
   params |-> NoParams, next_page |-> "", sent |-> <<>>]

BtOff ==
  [st |-> "off", kind |-> "none", ids |-> <<>>, wait_minutes |-> 0,
   batches |-> <<>>, bi |-> 0, acc |-> <<>>, sent |-> <<>>]

\* an uncaught exception ends the script run; session state stays as it is
Abort(kind, status, text, tries) ==
  /\ pc' = "idle"
  /\ run' = NoRun
  /\ wk' = WkOff
  /\ bt' = BtOff
  /\ gw' = GwOff
  /\ reply' = NoReply
  /\ outcome' = [kind |-> kind, status |-> status, text |-> text,
                 stage |-> pc, tries |-> tries]

-----------------------------------------------------------------------------
(* yt_get, one step per HTTP request and per second of waiting *)

\* requests.get answers 200
HttpOk ==
  /\ gw.st = "send"
  /\ reqs < MaxRequests
  /\ \E data \in Answers :
       /\ r' = OkResp
       /\ _record_quota(gw.endpoint)
       /\ reply' = data
       /\ gw' = [gw EXCEPT !.st = "ret", !.issued = @ + 1]
  /\ reqs' = reqs + 1
  /\ UNCHANGED <<api_waiting, api_wait_reason, results_df, payload_cache,
                 pc, run, wk, bt, outcome>>
  /\ UNCHANGED fn

\* requests.get answers another status
HttpFail ==
  /\ gw.st = "send"
  /\ reqs < MaxRequests
  /\ \E resp \in FailResponses :
       LET tries == gw.tries + 1 IN
         /\ r' = resp
         /\ IF RaisesIndexError(resp)
            THEN /\ Abort("IndexError", 0, <<>>, tries)
                 /\ UNCHANGED <<api_waiting, api_wait_reason>>
            ELSE IF ShouldRetry(resp.status, ErrReason(resp),
                                gw.wait_minutes, tries)
            THEN /\ api_waiting' = TRUE
                 /\ api_wait_reason' = gw.endpoint \o T_Sep \o ErrReason(resp)
                 /\ gw' = [gw EXCEPT !.st = "wait", !.tries = tries,
                                     !.left = WaitSecs(gw.wait_minutes),
                                     !.issued = @ + 1]
                 /\ UNCHANGED <<pc, run, wk, bt, reply, outcome>>
            ELSE /\ Abort("RuntimeError", resp.status, resp.text, tries)
                 /\ UNCHANGED <<api_waiting, api_wait_reason>>
  /\ reqs' = reqs + 1
  /\ UNCHANGED <<ledger, results_df, payload_cache>>
  /\ UNCHANGED fn

\* requests.get raises (timeout=30, connection error)
HttpTimeout ==
  /\ gw.st = "send"
  /\ reqs < MaxRequests
  /\ r' = NoResp
  /\ Abort("Timeout", 0, <<>>, gw.tries)
  /\ reqs' = reqs + 1
  /\ UNCHANGED <<ledger, api_waiting, api_wait_reason, results_df,
                 payload_cache>>
  /\ UNCHANGED fn

\* one pass of the countdown loop: time.sleep(1)
WaitTick ==
  /\ gw.st = "wait"
  /\ gw.left > 0
  /\ gw' = [gw EXCEPT !.left = @ - 1]
  /\ UNCHANGED <<ledger, api_waiting, api_wait_reason, results_df,
                 payload_cache, pc, run, wk, bt, r, reply, outcome, reqs>>
  /\ UNCHANGED fn

\* the countdown is over: api_waiting = False; continue
WaitEnd ==
  /\ gw.st = "wait"
  /\ gw.left = 0
  /\ api_waiting' = FALSE
  /\ gw' = [gw EXCEPT !.st = "send"]
  /\ UNCHANGED <<ledger, api_wait_reason, results_df, payload_cache, pc, run,
                 wk, bt, r, reply, outcome, reqs>>
  /\ UNCHANGED fn

-----------------------------------------------------------------------------
(* fetch_videos_by_search: the pagination walker *)

\* the for loop over a page's items: append, and return once the list
\* holds max_results identifiers
\* the whole page taken before the count is looked at
AppendWholePage(ids, items, max_results) ==
  [ids |-> ids \o items, full |-> Len(ids \o items) >= max_results]

RECURSIVE AppendUntil(_, _, _)
AppendUntil(ids, items, max_results) ==
  IF items = <<>> THEN [ids |-> ids, full |-> FALSE]
  ELSE LET ids1 == Append(ids, Head(items)) IN
         IF Len(ids1) >= max_results THEN [ids |-> ids1, full |-> TRUE]
         ELSE AppendUntil(ids1, Tail(items), max_results)

\* the walker without the override
EffectiveOrderAsRequested(published_after, order) == order

\* effective_order = "date" if (published_after and order != "date") else order
EffectiveOrder(published_after, order) ==
  IF published_after # "" /\ order # "date" THEN "date" ELSE order

\* the call of fetch_videos_by_search with its arguments
WalkCall(query, channel_id, region_code, relevance_language, published_after, max_results, order, wait_minutes) ==
  [WkOff EXCEPT !.st = "new", !.query = query, !.channel_id = channel_id,
                !.region_code = region_code,
                !.relevance_language = relevance_language,
                !.published_after = published_after,
                !.max_results = max_results, !.order = order,
                !.wait_minutes = wait_minutes]

\* lines 204-216: the parameters and the first request of the walk
WalkBegin ==
  /\ wk.st = "new"
  /\ LET effective_order == EffectiveOrder(wk.published_after, wk.order)
         params == [part |-> "snippet", type |-> "video", maxResults |-> 50,
                    order |-> effective_order, q |-> wk.query,
                    channelId |-> wk.channel_id,
                    regionCode |-> wk.region_code,
                    relevanceLanguage |-> wk.relevance_language,
                    publishedAfter |-> wk.published_after, pageToken |-> ""]
     IN /\ wk' = [wk EXCEPT !.st = "run", !.effective_order = effective_order,
                            !.params = params, !.sent = <<params>>]
        /\ yt_get(S_search, params, wk.wait_minutes)
  /\ UNCHANGED <<ledger, api_waiting, api_wait_reason, results_df,
                 payload_cache, pc, run, bt, reply, outcome, reqs>>
  /\ UNCHANGED fn

\* lines 217-223: a page came back; return, or ask for the next page
WalkPage ==
  /\ wk.st = "run"
  /\ gw.st = "ret"
  /\ LET took == AppendUntil(wk.ids, reply.items, wk.max_results)
         next_page == reply.next
         params == [wk.params EXCEPT !.pageToken = next_page]
     IN IF took.full
        THEN /\ wk' = [wk EXCEPT !.st = "ret", !.ids = took.ids]
             /\ gw' = GwOff
             /\ r' = r
        ELSE IF next_page = ""
        THEN /\ wk' = [wk EXCEPT !.st = "ret", !.ids = took.ids,
                                 !.next_page = next_page]
             /\ gw' = GwOff
             /\ r' = r
        ELSE /\ wk' = [wk EXCEPT !.ids = took.ids, !.next_page = next_page,
                                 !.params = params,
                                 !.sent = Append(@, params)]
             /\ yt_get(S_search, params, wk.wait_minutes)
  /\ reply' = NoReply
  /\ UNCHANGED <<ledger, api_waiting, api_wait_reason, results_df,
                 payload_cache, pc, run, bt, outcome, reqs>>
  /\ UNCHANGED fn

-----------------------------------------------------------------------------
(* batched, fetch_video_details, fetch_channel_subs *)

BatchSize == 50

\* batched(iterable, n): the batches the generator yields, in order: it
\* yields each time batch holds n items, and at the end what is left,
\* if anything
RECURSIVE BatchedFrom(_, _)
BatchedFrom(rest, n) ==
  IF rest = <<>> THEN <<>>
  ELSE IF Len(rest) < n THEN <<rest>>
  ELSE <<SubSeq(rest, 1, n)>> \o BatchedFrom(SubSeq(rest, n + 1, Len(rest)), n)

\* batched yielding only once batch holds more than n items
BatchedOffByOne(iterable, n) == BatchedFrom(iterable, n + 1)

batched(iterable, n) == BatchedFrom(iterable, n)

HasKey(d, id) == \E i \in 1..Len(d) : d[i].id = id

\* the item last stored under id
LastOf(items, id) ==
  items[CHOOSE j \in 1..Len(items) :
          /\ items[j].id = id
          /\ \A k \in (j + 1)..Len(items) : items[k].id # id]

\* for item in items: d[item["id"]] = ... on a dict, which keeps the order
\* in which its keys were first inserted
DictPutAll(d, items) ==
  LET kept == [i \in 1..Len(d) |->
                 IF HasKey(items, d[i].id) THEN LastOf(items, d[i].id)
                 ELSE d[i]]
      IsNew(j) == /\ ~HasKey(d, items[j].id)
                  /\ \A k \in 1..(j - 1) : items[k].id # items[j].id
      firsts == SelectSeq([j \in 1..Len(items) |-> j], IsNew)
  IN kept \o [i \in 1..Len(firsts) |-> LastOf(items, items[firsts[i]].id)]

\* int(item["statistics"].get("subscriberCount", 0))
SubsEntry(item) ==
  [id |-> item.id,
   subs |-> IF item.has_count THEN item.subscriberCount ELSE 0]

\* the call of fetch_video_details ("videos") or fetch_channel_subs
\* ("channels") with its list of identifiers
BatchCall(kind, ids, wait_minutes) ==
  [BtOff EXCEPT !.st = "new", !.kind = kind, !.ids = ids,
                !.wait_minutes = wait_minutes]

BatchEndpoint(kind) == IF kind = "videos" THEN S_videos ELSE S_channels

BatchParams(kind, batch) ==
  [type |-> kind,
   part |-> IF kind = "videos" THEN "snippet,contentDetails,statistics"
            ELSE "statistics",
   id |-> batch]

\* lines 226-229 / 235-238: nothing to look up, or the first batch
BatchBegin ==
  /\ bt.st = "new"
  /\ IF bt.ids = <<>>
     THEN /\ bt' = [bt EXCEPT !.st = "ret"]
          /\ UNCHANGED <<gw, r>>
     ELSE LET batches == batched(bt.ids, BatchSize) IN
            /\ bt' = [bt EXCEPT !.st = "run", !.batches = batches, !.bi = 1,
                                !.sent = <<batches[1]>>]
            /\ yt_get(BatchEndpoint(bt.kind), BatchParams(bt.kind, batches[1]),
                      bt.wait_minutes)
  /\ UNCHANGED <<ledger, api_waiting, api_wait_reason, results_df,
                 payload_cache, pc, run, wk, reply, outcome, reqs>>
  /\ UNCHANGED fn

\* lines 230-232 / 239-241: merge the items, then the next batch or return
BatchReturn ==
  /\ bt.st = "run"
  /\ gw.st = "ret"
  /\ LET items == IF bt.kind = "videos" THEN reply.items
                  ELSE [i \in 1..Len(reply.items) |-> SubsEntry(reply.items[i])]
         acc == DictPutAll(bt.acc, items)
     IN IF bt.bi < Len(bt.batches)
        THEN /\ bt' = [bt EXCEPT !.acc = acc, !.bi = @ + 1,
                                 !.sent = Append(@, bt.batches[bt.bi + 1])]
             /\ yt_get(BatchEndpoint(bt.kind),
                       BatchParams(bt.kind, bt.batches[bt.bi + 1]),
                       bt.wait_minutes)
        ELSE /\ bt' = [bt EXCEPT !.acc = acc, !.st = "ret"]
             /\ gw' = GwOff
             /\ r' = r
  /\ reply' = NoReply
  /\ UNCHANGED <<ledger, api_waiting, api_wait_reason, results_df,
                 payload_cache, pc, run, wk, outcome, reqs>>
  /\ UNCHANGED fn

-----------------------------------------------------------------------------
(* The main run: inputs *)

\* str.split(sep) for one-character separators: the pieces, empty ones too
RECURSIVE SplitAt(_, _, _)
SplitAt(txt, seps, cur) ==
  IF txt = <<>> THEN <<cur>>
  ELSE IF Head(txt) \in seps
       THEN <<cur>> \o SplitAt(Tail(txt), seps, <<>>)
       ELSE SplitAt(Tail(txt), seps, Append(cur, Head(txt)))

Whitespace == {" ", "\n", "\t"}

NonEmpty(p) == p # <<>>

\* part.split(): the words between runs of whitespace
SplitWords(part) == SelectSeq(SplitAt(part, Whitespace, <<>>), NonEmpty)

RECURSIVE Flatten(_)
Flatten(ss) == IF ss = <<>> THEN <<>> ELSE Head(ss) \o Flatten(Tail(ss))

\* [p.strip() for part in txt.split(",") for p in part.split() if p.strip()]
parse_list_field_inner(txt) ==
  IF txt = <<>> THEN <<>>
  ELSE LET parts == SplitAt(txt, {","}, <<>>) IN
         Flatten([i \in 1..Len(parts) |-> SplitWords(parts[i])])

IncludesChannels(run_mode) == run_mode \in {"channel", "both"}

IncludesKeywords(run_mode) == run_mode \in {"keyword", "both"}

\* (datetime.utcnow() - timedelta(days=days_back)).isoformat("T") + "Z"
published_after == "2026-01-01T00:00:00Z"

effective_lang == "ja"

\* what the widgets may hold when the run button is pressed.
\* per_channel_max, per_keyword_max: number_input(min_value=10, step=10);
\* wait_minutes in units of 1/WaitDenom minute.
Cfg(api_key, run_mode, channels_input, effective_keywords, target_regions, wait_minutes, filters) ==
  [api_key |-> api_key, run_mode |-> run_mode, filters |-> filters,
   channels_input |-> channels_input,
   effective_keywords |-> effective_keywords,
   target_regions |-> target_regions, per_channel_max |-> 10,
   per_keyword_max |-> 10, wait_minutes |-> wait_minutes]

T_handle_and_id == T_handle \o <<",", " ">> \o T_UC2

\* everything kept / shorts at any rate / long form at 100 views an hour
\* with every keyword / any keyword, the other filters ignored
F_ignore == Filters(TRUE, "shorts", 60, 100, FALSE, "any")
F_shorts == Filters(FALSE, "shorts", 60, 0, FALSE, "any")
F_long_all == Filters(FALSE, "long", 60, 100, TRUE, "all")
F_strict_any == Filters(TRUE, "both", 60, 0, TRUE, "any")

Configs ==
  { Cfg(FALSE, "both", T_UC2, <<T_cat>>, <<"KR">>, 0, F_ignore),
    Cfg(TRUE, "channel", <<>>, <<>>, <<"KR">>, 0, F_ignore),
    Cfg(TRUE, "channel", <<>>, <<T_cat>>, <<"KR">>, 0, F_ignore),
    Cfg(TRUE, "keyword", T_UC2, <<>>, <<"KR">>, 0, F_ignore),
    Cfg(TRUE, "both", <<>>, <<>>, <<"KR">>, 0, F_ignore),
    Cfg(TRUE, "channel", T_handle_and_id, <<>>, <<"KR">>, 2, F_shorts),
    Cfg(TRUE, "keyword", <<>>, <<T_cat>>, <<"KR", "US">>, 0, F_long_all),
    Cfg(TRUE, "keyword", <<>>, <<T_cat>>, <<>>, 0, F_ignore),
    Cfg(TRUE, "channel", T_UC2, <<T_cat>>, <<"KR">>, 0, F_strict_any),
    Cfg(TRUE, "both", T_UC2, <<T_cat>>, <<"KR">>, 1, F_ignore) }

-----------------------------------------------------------------------------
(* The main run: steps *)

Range(s) == { s[i] : i \in 1..Len(s) }

\* list(a_set): one order of its elements
RECURSIVE SetToList(_)
SetToList(S) ==
  IF S = {} THEN <<>>
  ELSE LET x == CHOOSE x \in S : TRUE IN <<x>> \o SetToList(S \ {x})

\* subs_map.get(ch_id, 0)
RECURSIVE SubsGet(_, _)
SubsGet(subs_map, ch_id) ==
  IF subs_map = <<>> THEN 0
  ELSE IF Head(subs_map).id = ch_id THEN Head(subs_map).subs
  ELSE SubsGet(Tail(subs_map), ch_id)

-----------------------------------------------------------------------------
(* Rows *)

DigitChars == <<"0","1","2","3","4","5","6","7","8","9">>

IsDigit(c) == \E i \in 1..10 : DigitChars[i] = c

DigitVal(c) == (CHOOSE i \in 1..10 : DigitChars[i] = c) - 1

\* int(text) of a run of digits
RECURSIVE IntOf(_)
IntOf(ds) ==
  IF ds = <<>> THEN 0
  ELSE 10 * IntOf(SubSeq(ds, 1, Len(ds) - 1)) + DigitVal(ds[Len(ds)])

\* str(n) of n >= 0
RECURSIVE Digits(_)
Digits(n) ==
  IF n < 10 THEN <<DigitChars[n + 1]>>
  ELSE Digits(n \div 10) \o <<DigitChars[(n % 10) + 1]>>

\* f"{n:02d}"
Pad2(n) == IF n < 10 THEN <<"0">> \o Digits(n) ELSE Digits(n)

\* how many digits s begins with
DigitRun(s) ==
  IF \E k \in 1..Len(s) : ~IsDigit(s[k])
  THEN (CHOOSE k \in 1..Len(s) :
          ~IsDigit(s[k]) /\ \A j \in 1..(k - 1) : IsDigit(s[j])) - 1
  ELSE Len(s)

\* (?:(\d+)X)? at the head of s: the group (0 if it does not take part)
\* and what is left of s
Component(s, letter) ==
  LET k == DigitRun(s) IN
    IF k >= 1 /\ Len(s) > k /\ s[k + 1] = letter
    THEN [val |-> IntOf(SubSeq(s, 1, k)), rest |-> SubSeq(s, k + 2, Len(s))]
    ELSE [val |-> 0, rest |-> s]

\* re.fullmatch(r'PT(?:(\d+)H)?(?:(\d+)M)?(?:(\d+)S)?', duration)
iso8601_to_seconds(duration) ==
  IF ~StartsWith(duration, <<"P", "T">>) THEN 0
  ELSE LET h == Component(SubSeq(duration, 3, Len(duration)), "H")
           m_ == Component(h.rest, "M")
           sec == Component(m_.rest, "S")
       IN IF sec.rest # <<>> THEN 0
          ELSE h.val * 3600 + m_.val * 60 + sec.val

\* human_duration without the hours
HumanDurationNoHours(seconds) ==
  Pad2((seconds % 3600) \div 60) \o <<":">> \o Pad2(seconds % 60)

human_duration(seconds) ==
  LET h == seconds \div 3600
      m == (seconds % 3600) \div 60
      sec == seconds % 60
  IN IF h # 0 THEN Pad2(h) \o <<":">> \o Pad2(m) \o <<":">> \o Pad2(sec)
     ELSE Pad2(m) \o <<":">> \o Pad2(sec)

\* the form factors "both", "shorts", "long" stand for the three choices of
\* the selectbox
filter_duration_mode(dur_sec, mode, shorts_sec) ==
  CASE mode = "both" -> TRUE
    [] mode = "shorts" -> dur_sec < shorts_sec
    [] mode = "long" -> dur_sec >= shorts_sec
    [] OTHER -> TRUE

normalize_text(s) == Lower(s)

\* k.strip() is not empty
NotBlank(k) == \E i \in 1..Len(k) : k[i] \notin Whitespace

\* contains_keywords taking every mode for "any"
ContainsKeywordsAny(text, keywords, mode) ==
  IF keywords = <<>> THEN TRUE
  ELSE LET t == normalize_text(text)
           kept == SelectSeq(keywords, NotBlank)
           ks == [i \in 1..Len(kept) |-> normalize_text(kept[i])]
       IN \E i \in 1..Len(ks) : Contains(ks[i], t)

contains_keywords(text, keywords, mode) ==
  IF keywords = <<>> THEN TRUE
  ELSE LET t == normalize_text(text)
           kept == SelectSeq(keywords, NotBlank)
           ks == [i \in 1..Len(kept) |-> normalize_text(kept[i])]
       IN IF mode = "all"
          THEN \A i \in 1..Len(ks) : Contains(ks[i], t)
          ELSE \E i \in 1..Len(ks) : Contains(ks[i], t)

\* " ".join(tags)
RECURSIVE JoinSpace(_)
JoinSpace(tags) ==
  IF tags = <<>> THEN <<>>
  ELSE IF Len(tags) = 1 THEN tags[1]
  ELSE tags[1] \o <<" ">> \o JoinSpace(Tail(tags))

\* 1 / 1e-6
TinyHoursInverse == 1000 * 1000

\* round(x, places) of x = num / den >= 0, in units of 10^-places given as
\* scale = 10^places; the data keep x off the half-way cases
RoundScaled(num, den, scale) == (2 * scale * num + den) \div (2 * den)

\* views, views per hour as the fraction vph_num / vph_den (hours_since is
\* the age, or 1e-6 when that is less), and the duration in seconds
compute_metrics(detail) ==
  [views |-> detail.views,
   vph_num |-> IF detail.age_hours > 0 THEN detail.views
               ELSE detail.views * TinyHoursInverse,
   vph_den |-> IF detail.age_hours > 0 THEN detail.age_hours ELSE 1,
   durationSec |-> iso8601_to_seconds(IF detail.has_duration
                                      THEN detail.duration ELSE T_PT0S)]

\* the filter chain with the override also switching off the keyword stage
KeepsOverrideAll(detail, all_keywords_norm, f) ==
  \/ f.ignore_filters
  \/ LET metrics == compute_metrics(detail)
         combined == detail.title \o <<"\n">> \o detail.description
                       \o <<"\n">> \o JoinSpace(detail.tags)
     IN /\ filter_duration_mode(metrics.durationSec, f.form_factor,
                                f.shorts_sec)
        /\ ~(metrics.vph_num < f.min_vph * metrics.vph_den)
        /\ (f.strict_on /\ all_keywords_norm # <<>>) =>
             contains_keywords(combined, all_keywords_norm, f.strict_mode_key)

\* lines 734-747: does the video get a row
Keeps(detail, all_keywords_norm, f) ==
  LET metrics == compute_metrics(detail)
      combined == detail.title \o <<"\n">> \o detail.description \o <<"\n">>
                    \o JoinSpace(detail.tags)
  IN /\ f.ignore_filters
        \/ /\ filter_duration_mode(metrics.durationSec, f.form_factor,
                                   f.shorts_sec)
           /\ ~(metrics.vph_num < f.min_vph * metrics.vph_den)
     /\ (f.strict_on /\ all_keywords_norm # <<>>) =>
          contains_keywords(combined, all_keywords_norm, f.strict_mode_key)

\* the row with a ratio of 0 where there are no subscribers
RowRatioZero(detail, subs_map) ==
  LET metrics == compute_metrics(detail)
      subs == SubsGet(subs_map, detail.channelId)
  IN [Channel |-> detail.channelTitle,
      Title |-> detail.title,
      Views |-> metrics.views,
      Vph |-> RoundScaled(metrics.vph_num, metrics.vph_den, 100),
      Subscribers |-> subs,
      has_vs |-> TRUE,
      VS |-> IF subs > 0 THEN RoundScaled(metrics.views, subs, 1000) ELSE 0,
      Duration |-> human_duration(metrics.durationSec),
      Duration_sec |-> metrics.durationSec,
      vid |-> detail.id]

\* lines 749-770: the row of one video; vph in hundredths, vs in thousandths
Row(detail, subs_map) ==
  LET metrics == compute_metrics(detail)
      subs == SubsGet(subs_map, detail.channelId)
  IN [Channel |-> detail.channelTitle,
      Title |-> detail.title,
      Views |-> metrics.views,
      Vph |-> RoundScaled(metrics.vph_num, metrics.vph_den, 100),
      Subscribers |-> subs,
      has_vs |-> subs > 0,
      VS |-> IF subs > 0 THEN RoundScaled(metrics.views, subs, 1000) ELSE 0,
      Duration |-> human_duration(metrics.durationSec),
      Duration_sec |-> metrics.durationSec,
      vid |-> detail.id]

\* lines 726-770
BuildRows(details, subs_map, base_keywords, f) ==
  LET all_keywords_norm ==
        [i \in 1..Len(base_keywords) |-> normalize_text(base_keywords[i])]
      Kept(detail) == Keeps(detail, all_keywords_norm, f)
      kept == SelectSeq(details, Kept)
  IN [i \in 1..Len(kept) |-> Row(kept[i], subs_map)]

\* row a comes before row b by ["Views/hr", "Views"], both descending
Before(a, b) == a.Vph > b.Vph \/ (a.Vph = b.Vph /\ a.Views > b.Views)

\* the sort by "Views/hr" alone
SortByRateOnly(df) ==
  LET Rank(i) ==
        Cardinality({ j \in 1..Len(df) :
                        \/ df[j].Vph > df[i].Vph
                        \/ (df[j].Vph = df[i].Vph /\ j < i) }) + 1
  IN [k \in 1..Len(df) |-> df[CHOOSE i \in 1..Len(df) : Rank(i) = k]]

\* df.sort_values(by=["Views/hr","Views"], ascending=[False, False],
\* kind="mergesort"): equal rows keep their order
sort_values(df) ==
  LET Rank(i) ==
        Cardinality({ j \in 1..Len(df) :
                        \/ Before(df[j], df[i])
                        \/ (~Before(df[i], df[j]) /\ j < i) }) + 1
  IN [k \in 1..Len(df) |-> df[CHOOSE i \in 1..Len(df) : Rank(i) = k]]

\* lines 788-799: the payload entry of a row
PayloadEntry(row) ==
  [channel |-> row.Channel, title |-> row.Title, views |-> row.Views,
   vph |-> row.Vph, subs |-> row.Subscribers, has_vs |-> row.has_vs,
   vs |-> row.VS, duration |-> row.Duration,
   duration_sec |-> row.Duration_sec, vid |-> row.vid]

\* lines 781-802: the results tab, given results_df and payload_cache
ResultsTab(df, cache) ==
  IF df = <<>> THEN cache
  ELSE IF cache # <<>> THEN cache
  ELSE LET df_sorted == sort_values(df) IN
         [i \in 1..Len(df_sorted) |-> PayloadEntry(df_sorted[i])]

Idle == pc = "idle"

Quiet == wk.st = "off" /\ bt.st = "off" /\ gw.st = "off"

\* lines 637-670: the run button; st.stop() on a missing key or no input
StartRun ==
  /\ Idle
  /\ \E cfg \in Configs :
       LET input_channels ==
             IF IncludesChannels(cfg.run_mode)
             THEN parse_list_field_inner(cfg.channels_input) ELSE <<>>
           base_keywords == cfg.effective_keywords
       IN IF ~cfg.api_key
          THEN /\ outcome' = [NoOutcome EXCEPT !.kind = "stop_no_key"]
               /\ UNCHANGED <<pc, run>>
          ELSE IF Len(input_channels) = 0 /\ Len(base_keywords) = 0
          THEN /\ outcome' = [NoOutcome EXCEPT !.kind = "stop_no_input"]
               /\ UNCHANGED <<pc, run>>
          ELSE /\ outcome' = [NoOutcome EXCEPT !.kind = "running"]
               /\ pc' = "resolve"
               /\ run' = [NoRun EXCEPT
                            !.run_mode = cfg.run_mode,
                            !.filters = cfg.filters,
                            !.input_channels = input_channels,
                            !.base_keywords = base_keywords,
                            !.target_regions = cfg.target_regions,
                            !.per_channel_max = cfg.per_channel_max,
                            !.per_keyword_max = cfg.per_keyword_max,
                            !.wait_minutes = cfg.wait_minutes,
                            !.ti = 1]
  /\ r' = NoResp
  /\ UNCHANGED <<ledger, api_waiting, api_wait_reason, results_df,
                 payload_cache, wk, bt, gw, reply, reqs>>
  /\ UNCHANGED fn

\* the clear button taking the quota ledger with it
ClearWithLedger ==
  /\ Idle
  /\ results_df' = <<>>
  /\ payload_cache' = <<>>
  /\ q_calls' = [search |-> 0, videos |-> 0, channels |-> 0]
  /\ q_units' = 0
  /\ q_log' = <<>>
  /\ outcome' = [NoOutcome EXCEPT !.kind = "cleared"]
  /\ r' = NoResp
  /\ UNCHANGED <<api_waiting, api_wait_reason, pc, run, wk, bt, gw, reply,
                 reqs>>
  /\ UNCHANGED fn

\* lines 629-632: the clear button
Clear ==
  /\ Idle
  /\ results_df' = <<>>
  /\ payload_cache' = <<>>
  /\ outcome' = [NoOutcome EXCEPT !.kind = "cleared"]
  /\ r' = NoResp
  /\ UNCHANGED <<ledger, api_waiting, api_wait_reason, pc, run, wk, bt, gw,
                 reply, reqs>>
  /\ UNCHANGED fn

\* lines 675-688: resolve_channel_ids, up to the next "@" token's lookup
ResolveStep ==
  /\ pc = "resolve"
  /\ Quiet
  /\ IF ~IncludesChannels(run.run_mode) \/ run.ti > Len(run.input_channels)
     THEN /\ run' = [run EXCEPT !.channels = run.out, !.gi = 1, !.ci = 1]
          /\ pc' = "fan_ch"
          /\ UNCHANGED <<gw, r>>
     ELSE LET token == run.input_channels[run.ti] IN
            IF StartsWith(token, <<"@">>)
            THEN /\ yt_get(S_search,
                           [part |-> "snippet", type |-> "channel",
                            q |-> token, maxResults |-> 1],
                           run.wait_minutes)
                 /\ UNCHANGED <<pc, run>>
            ELSE /\ run' = [run EXCEPT !.out = Append(@, token), !.ti = @ + 1]
                 /\ UNCHANGED <<pc, gw, r>>
  /\ UNCHANGED <<ledger, api_waiting, api_wait_reason, results_df,
                 payload_cache, wk, bt, reply, outcome, reqs>>
  /\ UNCHANGED fn

\* a handle that was not found kept as if it were an identifier
ResolveReturnKeepsHandle ==
  /\ pc = "resolve"
  /\ gw.st = "ret"
  /\ LET items == reply.items
         ch1 == IF items # <<>> THEN items[1].snippet ELSE <<>>
         ch_id == IF ch1 = <<>> /\ items # <<>> THEN items[1].id ELSE ch1
     IN run' = [run EXCEPT
                  !.out = IF ch_id # <<>> THEN Append(@, ch_id)
                          ELSE Append(@, gw.params.q),
                  !.ti = @ + 1,
                  !.lookups = Append(@, [q |-> gw.params.q, ch_id |-> ch_id])]
  /\ gw' = GwOff
  /\ reply' = NoReply
  /\ UNCHANGED <<ledger, api_waiting, api_wait_reason, results_df,
                 payload_cache, pc, wk, bt, r, outcome, reqs>>
  /\ UNCHANGED fn

\* lines 680-683: the lookup of an "@" token came back; lookups keeps the
\* history of the lookups of this run
ResolveReturn ==
  /\ pc = "resolve"
  /\ gw.st = "ret"
  /\ LET items == reply.items
         ch1 == IF items # <<>> THEN items[1].snippet ELSE <<>>
         ch_id == IF ch1 = <<>> /\ items # <<>> THEN items[1].id ELSE ch1
     IN run' = [run EXCEPT
                  !.out = IF ch_id # <<>> THEN Append(@, ch_id) ELSE @,
                  !.ti = @ + 1,
                  !.lookups = Append(@, [q |-> gw.params.q, ch_id |-> ch_id])]
  /\ gw' = GwOff
  /\ reply' = NoReply
  /\ UNCHANGED <<ledger, api_waiting, api_wait_reason, results_df,
                 payload_cache, pc, wk, bt, r, outcome, reqs>>
  /\ UNCHANGED fn

\* lines 693-702: the channel fan-out, up to the next walk
FanChStep ==
  /\ pc = "fan_ch"
  /\ Quiet
  /\ IF ~IncludesChannels(run.run_mode) \/ run.gi > Len(run.target_regions)
     THEN /\ pc' = "fan_kw"
          /\ run' = [run EXCEPT !.gi = 1, !.ci = 1]
          /\ wk' = wk
     ELSE IF run.ci > Len(run.channels)
     THEN /\ run' = [run EXCEPT !.gi = @ + 1, !.ci = 1]
          /\ UNCHANGED <<pc, wk>>
     ELSE /\ wk' = WalkCall(<<>>, run.channels[run.ci],
                            run.target_regions[run.gi], effective_lang,
                            published_after, run.per_channel_max, "date",
                            run.wait_minutes)
          /\ UNCHANGED <<pc, run>>
  /\ UNCHANGED <<ledger, api_waiting, api_wait_reason, results_df,
                 payload_cache, bt, gw, r, reply, outcome, reqs>>
  /\ UNCHANGED fn

\* lines 705-715: the keyword fan-out, up to the next walk
FanKwStep ==
  /\ pc = "fan_kw"
  /\ Quiet
  /\ IF ~IncludesKeywords(run.run_mode) \/ run.gi > Len(run.target_regions)
     THEN /\ pc' = "details"
          /\ UNCHANGED <<run, wk>>
     ELSE IF run.ci > Len(run.base_keywords)
     THEN /\ run' = [run EXCEPT !.gi = @ + 1, !.ci = 1]
          /\ UNCHANGED <<pc, wk>>
     ELSE IF run.base_keywords[run.ci] = <<>>
     THEN /\ run' = [run EXCEPT !.ci = @ + 1]
          /\ UNCHANGED <<pc, wk>>
     ELSE /\ wk' = WalkCall(run.base_keywords[run.ci], <<>>,
                            run.target_regions[run.gi], effective_lang,
                            published_after, run.per_keyword_max, "viewCount",
                            run.wait_minutes)
          /\ UNCHANGED <<pc, run>>
  /\ UNCHANGED <<ledger, api_waiting, api_wait_reason, results_df,
                 payload_cache, bt, gw, r, reply, outcome, reqs>>
  /\ UNCHANGED fn

\* what a returned walk was called with, and the identifiers it returned
WalkRecord ==
  [channel_id |-> wk.channel_id, query |-> wk.query,
   region |-> wk.region_code, ids |-> Range(wk.ids)]

\* the identifiers of the last walk kept in place of those collected so far
WalkReturnReplacing ==
  /\ pc \in {"fan_ch", "fan_kw"}
  /\ wk.st = "ret"
  /\ run' = [run EXCEPT !.collected_ids = Range(wk.ids), !.ci = @ + 1,
                        !.walks = Append(@, WalkRecord)]
  /\ wk' = WkOff
  /\ UNCHANGED <<ledger, api_waiting, api_wait_reason, results_df,
                 payload_cache, pc, bt, gw, r, reply, outcome, reqs>>
  /\ UNCHANGED fn

\* lines 702 / 715: collected_ids.update(ids); walks keeps the history of
\* the calls of the walker in this run
WalkReturn ==
  /\ pc \in {"fan_ch", "fan_kw"}
  /\ wk.st = "ret"
  /\ run' = [run EXCEPT !.collected_ids = @ \cup Range(wk.ids), !.ci = @ + 1,
                        !.walks = Append(@, WalkRecord)]
  /\ wk' = WkOff
  /\ UNCHANGED <<ledger, api_waiting, api_wait_reason, results_df,
                 payload_cache, pc, bt, gw, r, reply, outcome, reqs>>
  /\ UNCHANGED fn

\* line 719: fetch_video_details(api_key, list(collected_ids))
DetailsStep ==
  /\ pc = "details"
  /\ Quiet
  /\ bt' = BatchCall("videos", SetToList(run.collected_ids), run.wait_minutes)
  /\ UNCHANGED <<ledger, api_waiting, api_wait_reason, results_df,
                 payload_cache, pc, run, wk, gw, r, reply, outcome, reqs>>
  /\ UNCHANGED fn

\* lines 719-723: details are in; fetch_channel_subs if channel_ids
DetailsReturn ==
  /\ pc = "details"
  /\ bt.st = "ret"
  /\ LET details == bt.acc
         channel_ids == { details[i].channelId : i \in 1..Len(details) }
     IN /\ run' = [run EXCEPT !.details = details]
        /\ IF channel_ids # {}
           THEN /\ bt' = BatchCall("channels", SetToList(channel_ids),
                                   run.wait_minutes)
                /\ pc' = "subs"
           ELSE /\ bt' = BtOff
                /\ pc' = "build"
  /\ UNCHANGED <<ledger, api_waiting, api_wait_reason, results_df,
                 payload_cache, wk, gw, r, reply, outcome, reqs>>
  /\ UNCHANGED fn

\* line 723: subs_map is in
SubsReturn ==
  /\ pc = "subs"
  /\ bt.st = "ret"
  /\ run' = [run EXCEPT !.subs_map = bt.acc]
  /\ bt' = BtOff
  /\ pc' = "build"
  /\ UNCHANGED <<ledger, api_waiting, api_wait_reason, results_df,
                 payload_cache, wk, gw, r, reply, outcome, reqs>>
  /\ UNCHANGED fn

\* lines 781-807: a script run with no button pressed draws the results tab
Rerun ==
  /\ Idle
  /\ payload_cache' = ResultsTab(results_df, payload_cache)
  /\ UNCHANGED <<ledger, api_waiting, api_wait_reason, results_df, pc, run,
                 wk, bt, gw, r, reply, outcome, reqs>>
  /\ UNCHANGED fn

\* the run publishing its rows without line 777: the cache is left as it is
BuildKeepingCache ==
  /\ pc = "build"
  /\ LET rows == BuildRows(run.details, run.subs_map, run.base_keywords,
                            run.filters)
     IN /\ results_df' = rows
        /\ payload_cache' = ResultsTab(rows, payload_cache)
  /\ pc' = "idle"
  /\ run' = NoRun
  /\ outcome' = [NoOutcome EXCEPT !.kind = "done"]
  /\ UNCHANGED <<ledger, api_waiting, api_wait_reason, wk, bt, gw, r, reply,
                 reqs>>
  /\ UNCHANGED fn

\* the run adding its rows to the published ones
BuildMerging ==
  /\ pc = "build"
  /\ LET rows == BuildRows(run.details, run.subs_map, run.base_keywords,
                            run.filters)
     IN /\ results_df' = results_df \o rows
        /\ payload_cache' = ResultsTab(results_df \o rows, <<>>)
  /\ pc' = "idle"
  /\ run' = NoRun
  /\ outcome' = [NoOutcome EXCEPT !.kind = "done"]
  /\ UNCHANGED <<ledger, api_waiting, api_wait_reason, wk, bt, gw, r, reply,
                 reqs>>
  /\ UNCHANGED fn

\* lines 728-807: the rows, results_df, and the results tab of this script run
Build ==
  /\ pc = "build"
  /\ LET rows == BuildRows(run.details, run.subs_map, run.base_keywords,
                            run.filters)
     IN /\ results_df' = rows
        /\ payload_cache' = ResultsTab(rows, <<>>)
  /\ pc' = "idle"
  /\ run' = NoRun
  /\ outcome' = [NoOutcome EXCEPT !.kind = "done"]
  /\ UNCHANGED <<ledger, api_waiting, api_wait_reason, wk, bt, gw, r, reply,
                 reqs>>
  /\ UNCHANGED fn

-----------------------------------------------------------------------------
(* The session *)

Init ==
  /\ q_calls = [search |-> 0, videos |-> 0, channels |-> 0]
  /\ q_units = 0
  /\ q_log = <<>>
  /\ api_waiting = FALSE
  /\ api_wait_reason = <<>>
  /\ results_df = <<>>
  /\ payload_cache = <<>>
  /\ pc = "idle"
  /\ run = NoRun
  /\ wk = WkOff
  /\ bt = BtOff
  /\ gw = GwOff
  /\ r = NoResp
  /\ reply = NoReply
  /\ outcome = NoOutcome
  /\ reqs = 0
  /\ fn = NoFn

Next ==
  \/ StartRun
  \/ Clear
  \/ Rerun
  \/ ResolveStep
  \/ ResolveReturn
  \/ FanChStep
  \/ FanKwStep
  \/ WalkBegin
  \/ WalkPage
  \/ WalkReturn
  \/ DetailsStep
  \/ BatchBegin
  \/ BatchReturn
  \/ DetailsReturn
  \/ SubsReturn
  \/ Build
  \/ HttpOk
  \/ HttpFail
  \/ HttpTimeout
  \/ WaitTick
  \/ WaitEnd

Spec == Init /\ [][Next]_vars

-----------------------------------------------------------------------------
(* fetch_videos_by_search on its own: any arguments, any pages *)

WalkMaxChoices == {1, 4, 10}

WalkOrders == {"date", "viewCount", "relevance"}

WalkInputs ==
  { WalkCall(T_cat, <<>>, "KR", effective_lang, pa, m, o, w) :
      pa \in {"", published_after}, m \in WalkMaxChoices, o \in WalkOrders,
      w \in {0, 2} }

InitWalk ==
  /\ q_calls = [search |-> 0, videos |-> 0, channels |-> 0]
  /\ q_units = 0
  /\ q_log = <<>>
  /\ api_waiting = FALSE
  /\ api_wait_reason = <<>>
  /\ results_df = <<>>
  /\ payload_cache = <<>>
  /\ pc = "lib"
  /\ run = NoRun
  /\ wk \in WalkInputs
  /\ bt = BtOff
  /\ gw = GwOff
  /\ r = NoResp
  /\ reply = NoReply
  /\ outcome = NoOutcome
  /\ reqs = 0
  /\ fn = NoFn

NextWalk ==
  \/ WalkBegin
  \/ WalkPage
  \/ HttpOk
  \/ HttpFail
  \/ HttpTimeout
  \/ WaitTick
  \/ WaitEnd

SpecWalk == InitWalk /\ [][NextWalk]_vars

-----------------------------------------------------------------------------
(* fetch_video_details / fetch_channel_subs on their own: lists of any size *)

Ids(n) == [i \in 1..n |-> i]

BatchSizes == {0, 1, 49, 50, 51, 100, 120}

BatchInputs ==
  { BatchCall(kind, Ids(n), w) :
      kind \in {"videos", "channels"}, n \in BatchSizes, w \in {0, 1, 2, 5} }

InitBatch ==
  /\ q_calls = [search |-> 0, videos |-> 0, channels |-> 0]
  /\ q_units = 0
  /\ q_log = <<>>
  /\ api_waiting = FALSE
  /\ api_wait_reason = <<>>
  /\ results_df = <<>>
  /\ payload_cache = <<>>
  /\ pc = "lib"
  /\ run = NoRun
  /\ wk = WkOff
  /\ bt \in BatchInputs
  /\ gw = GwOff
  /\ r = NoResp
  /\ reply = NoReply
  /\ outcome = NoOutcome
  /\ reqs = 0
  /\ fn = NoFn

NextBatch ==
  \/ BatchBegin
  \/ BatchReturn
  \/ HttpOk
  \/ HttpFail
  \/ HttpTimeout
  \/ WaitTick
  \/ WaitEnd

SpecBatch == InitBatch /\ [][NextBatch]_vars

-----------------------------------------------------------------------------
(* The row build and the results tab on their own: any details, subscriber *)
(* map, keywords and filter settings; fn keeps what the run was given      *)

Videos == 1..5

MaxDetails == 3

\* lists of up to MaxDetails different videos, in any order
DetailLists ==
  { ds \in UNION { [1..n -> Videos] : n \in 0..MaxDetails } :
      \A i, j \in 1..Len(ds) : i # j => ds[i] # ds[j] }

SubsMaps ==
  { <<>>,
    <<[id |-> T_UC1, subs |-> 1000], [id |-> T_UC2, subs |-> 0]>>,
    <<[id |-> T_UC1, subs |-> 3000]>> }

KeywordLists == { <<>>, <<T_cat>>, <<T_cat, T_dog>> }

FilterInputs ==
  { Filters(i, ff, ss, mv, so, sm) :
      i \in BOOLEAN, ff \in {"both", "shorts", "long"}, ss \in {30, 60},
      mv \in {100, 101}, so \in BOOLEAN, sm \in {"any", "all"} }

RowInput(ds, sm, kws, f) ==
  [NoRun EXCEPT !.run_mode = "keyword",
                !.details = [i \in 1..Len(ds) |-> Detail(ds[i])],
                !.subs_map = sm, !.base_keywords = kws, !.filters = f]

\* every filter setting with every keyword list, and every subscriber map
\* with nothing filtered
RowInputs ==
  { RowInput(ds, <<>>, kws, f) :
      ds \in DetailLists, kws \in KeywordLists, f \in FilterInputs }
  \cup { RowInput(ds, sm, <<>>, F_ignore) :
           ds \in DetailLists, sm \in SubsMaps }

InitRows ==
  /\ q_calls = [search |-> 0, videos |-> 0, channels |-> 0]
  /\ q_units = 0
  /\ q_log = <<>>
  /\ api_waiting = FALSE
  /\ api_wait_reason = <<>>
  /\ results_df = <<>>
  /\ payload_cache = <<>>
  /\ pc = "build"
  /\ run \in RowInputs
  /\ wk = WkOff
  /\ bt = BtOff
  /\ gw = GwOff
  /\ r = NoResp
  /\ reply = NoReply
  /\ outcome = NoOutcome
  /\ reqs = 0
  /\ fn = [name |-> "rows", details |-> run.details,
           subs_map |-> run.subs_map, base_keywords |-> run.base_keywords,
           filters |-> run.filters]

NextRows == Build

SpecRows == InitRows /\ [][NextRows]_vars

-----------------------------------------------------------------------------
(* contains_keywords, and iso8601_to_seconds with human_duration, on their *)
(* own                                                                     *)

MaxKeywords == 2

T_Cat == <<"C","a","t">>
T_t_v == <<"t"," ","v">>
T_DOG_cat == <<"D","O","G","\n","c","a","t">>

\* keywords as parse_list_field and translate_keywords_list leave them:
\* stripped and not empty, of one word or more
KeywordChoices == {T_cat, T_Cat, T_dog, T_t_v}

TextChoices == {<<>>, T_dog, T_cat, T_Cat_video, T_DOG_cat}

KeywordCalls ==
  { [name |-> "contains_keywords", st |-> "new", text |-> t, keywords |-> ks,
     mode |-> m, result |-> FALSE] :
      t \in TextChoices,
      ks \in UNION { [1..n -> KeywordChoices] : n \in 0..MaxKeywords },
      m \in {"any", "all"} }

\* the ISO 8601 text of a duration: each of hours, minutes, seconds is a
\* number or -1 for a part that is left out; pad writes two digits at least
Encode(h, m, sec, pad) ==
  LET Num(n) == IF pad THEN Pad2(n) ELSE Digits(n)
      Part(n, letter) == IF n < 0 THEN <<>> ELSE Num(n) \o <<letter>>
  IN <<"P", "T">> \o Part(h, "H") \o Part(m, "M") \o Part(sec, "S")

HourChoices == {-1, 0, 1, 25, 100}
MinuteChoices == {-1, 0, 5, 59, 90}
SecondChoices == {-1, 0, 7, 59, 3600}

T_PT5 == <<"P","T","5">>
T_1H == <<"1","H">>
T_PT1S2M == <<"P","T","1","S","2","M">>
T_PT_neg == <<"P","T","-","5","S">>
T_pt5s == <<"p","t","5","s">>
T_PT1H_sp == <<"P","T","1","H"," ">>
T_PT1p5S == <<"P","T","1",".","5","S">>
T_P1DT1H == <<"P","1","D","T","1","H">>

\* texts the pattern does not match
Malformed ==
  {<<>>, T_P1D, T_PT5, T_1H, T_PT1S2M, T_PT_neg, T_pt5s, T_PT1H_sp, T_PT1p5S,
   T_P1DT1H}

\* contentDetails.duration: well formed, malformed, or not there
DurationCalls ==
  { [name |-> "duration", st |-> "new", kind |-> "parts", h |-> h, m |-> m,
     sec |-> sec, has_duration |-> TRUE, duration |-> Encode(h, m, sec, pad),
     seconds |-> 0, clock |-> <<>>] :
      h \in HourChoices, m \in MinuteChoices, sec \in SecondChoices,
      pad \in BOOLEAN }
  \cup
  { [name |-> "duration", st |-> "new", kind |-> "malformed", h |-> -1,
     m |-> -1, sec |-> -1, has_duration |-> TRUE, duration |-> t,
     seconds |-> 0, clock |-> <<>>] : t \in Malformed }
  \cup
  { [name |-> "duration", st |-> "new", kind |-> "absent", h |-> -1,
     m |-> -1, sec |-> -1, has_duration |-> FALSE, duration |-> <<>>,
     seconds |-> 0, clock |-> <<>>] }

InitPure ==
  /\ q_calls = [search |-> 0, videos |-> 0, channels |-> 0]
  /\ q_units = 0
  /\ q_log = <<>>
  /\ api_waiting = FALSE
  /\ api_wait_reason = <<>>
  /\ results_df = <<>>
  /\ payload_cache = <<>>
  /\ pc = "lib"
  /\ run = NoRun
  /\ wk = WkOff
  /\ bt = BtOff
  /\ gw = GwOff
  /\ r = NoResp
  /\ reply = NoReply
  /\ outcome = NoOutcome
  /\ reqs = 0
  /\ fn \in KeywordCalls \cup DurationCalls

\* contains_keywords(text, keywords, mode)
ContainsKeywordsCall ==
  /\ fn.name = "contains_keywords"
  /\ fn.st = "new"
  /\ fn' = [fn EXCEPT !.st = "done",
                      !.result = contains_keywords(fn.text, fn.keywords,
                                                   fn.mode)]
  /\ UNCHANGED <<ledger, api_waiting, api_wait_reason, results_df,
                 payload_cache, pc, run, wk, bt, gw, r, reply, outcome, reqs>>

\* lines 248 and 765: the duration of a detail parsed, then formatted
DurationCall ==
  /\ fn.name = "duration"
  /\ fn.st = "new"
  /\ LET dur_sec == iso8601_to_seconds(IF fn.has_duration THEN fn.duration
                                       ELSE T_PT0S)
     IN fn' = [fn EXCEPT !.st = "done", !.seconds = dur_sec,
                         !.clock = human_duration(dur_sec)]
  /\ UNCHANGED <<ledger, api_waiting, api_wait_reason, results_df,
                 payload_cache, pc, run, wk, bt, gw, r, reply, outcome, reqs>>

NextPure ==
  \/ ContainsKeywordsCall
  \/ DurationCall

SpecPure == InitPure /\ [][NextPure]_vars

-----------------------------------------------------------------------------
(* Properties *)

\* the words that mark a quota or rate failure, and the test for them
HasAnyOf(words, text) == \E k \in words : Contains(k, Lower(text))

\* the failed response resp names a quota or rate failure
QuotaFailure(resp) ==
  /\ resp.status \in {403, 429}
  /\ ~RaisesIndexError(resp)
  /\ HasAnyOf({K_quota, K_daily, K_rate, K_exceed}, ErrReason(resp))

Active == gw.st \in {"send", "wait"}

\* C1: in every reachable state the unit total q_units equals
\* 100 x search calls + 1 x videos calls + 1 x channels calls.
C1_UnitTotal ==
  q_units = 100 * q_calls.search + 1 * q_calls.videos + 1 * q_calls.channels

\* all three kinds recorded, after a retry, and a later call failed
C1_Witness ==
  /\ q_calls.search > 0
  /\ q_calls.videos > 0
  /\ q_calls.channels > 0
  /\ api_wait_reason # <<>>
  /\ outcome.kind = "RuntimeError"

\* C2: while a call of yt_get goes on after a failed attempt (it waits, or is
\* about to re-issue the request), that attempt had status 403 or 429, a
\* reason containing quota, daily, rate or exceed in any case, waitMinutes > 0
\* and retries left; so after any other failed attempt, such as a 404, the
\* call has ended.
C2_RetryOnlyIfQualifying ==
  (Active /\ gw.issued > 0) =>
    /\ QuotaFailure(r)
    /\ gw.wait_minutes > 0
    /\ gw.issued <= max_retries

\* the request is about to be re-issued for the second time, after a 429
C2_Witness ==
  /\ gw.st = "send"
  /\ gw.issued = max_retries
  /\ r.status = 429

\* what is left of a call: attempts, then seconds of the current wait
Remaining ==
  (max_retries + 1 - gw.issued) * (WaitSecs(gw.wait_minutes) + 2)
    + (IF gw.st = "wait" THEN gw.left + 1 ELSE 0)

\* C3: a call of yt_get issues at most max_retries + 1 requests; every step
\* of a call that does not end it brings it nearer its end; a qualifying
\* failure is retried while fewer than max_retries retries were made, and
\* after exactly max_retries retries it is a RuntimeError, not another wait.
C3_BoundedAttempts ==
  [][ /\ gw'.issued <= max_retries + 1
      /\ (gw'.st \in {"send", "wait"} => gw'.issued <= max_retries)
      /\ (Active /\ gw'.st \in {"send", "wait"} =>
            Remaining' < Remaining /\ Remaining' >= 0)
      /\ (/\ gw.st = "send"
          /\ reqs' = reqs + 1
          /\ QuotaFailure(r')
          /\ gw.wait_minutes > 0)
         => IF gw.issued < max_retries
            THEN gw'.st = "wait" /\ gw'.issued = gw.issued + 1
            ELSE /\ gw.issued = max_retries
                 /\ gw'.st = "off"
                 /\ api_waiting' = FALSE
                 /\ outcome'.kind = "RuntimeError"
                 /\ outcome'.tries = max_retries + 1
    ]_vars

\* a call ended in the error after all its retries failed
C3_Witness ==
  /\ outcome.kind = "RuntimeError"
  /\ outcome.tries = max_retries + 1
  /\ outcome.status \in {403, 429}
  /\ gw.st = "off"

\* the ledger after one more call of kind endpoint at cost units
LedgerPlus(endpoint, units) ==
  /\ q_log' = Append(q_log, <<endpoint, units>>)
  /\ q_units' = q_units + units
  /\ q_calls'.search + q_calls'.videos + q_calls'.channels
       = q_calls.search + q_calls.videos + q_calls.channels + 1
  /\ q_calls'.search = q_calls.search + (IF endpoint = S_search THEN 1 ELSE 0)
  /\ q_calls'.videos = q_calls.videos + (IF endpoint = S_videos THEN 1 ELSE 0)
  /\ q_calls'.channels
       = q_calls.channels + (IF endpoint = S_channels THEN 1 ELSE 0)

\* C4: the step in which a call of yt_get returns adds one to one counter,
\* the endpoint's cost to the unit total and one entry to the log, also
\* after waits and retries; every other step (a failed attempt, a wait, a
\* call ending in an error) leaves the ledger as it is.
C4_LedgerOncePerReturn ==
  [][ IF gw.st = "send" /\ gw'.st = "ret"
      THEN LedgerPlus(gw.endpoint, IF gw.endpoint = S_search THEN 100 ELSE 1)
      ELSE UNCHANGED ledger
    ]_vars

\* a call returned at its third attempt
C4_Witness ==
  /\ gw.st = "ret"
  /\ gw.issued = max_retries + 1
  /\ q_log # <<>>

\* C5: a call ended by a response other than 200 ended in the RuntimeError
\* that carries that response's status and raw text, whatever the body.
C5_FatalCarriesStatusAndBody ==
  (gw.st = "off" /\ r.status \notin {0, 200}) =>
    /\ outcome.kind = "RuntimeError"
    /\ outcome.status = r.status
    /\ outcome.text = r.text

AbortKinds == {"RuntimeError", "IndexError", "Timeout"}

\* C6: results_df changes only in the step that completes a run, which
\* replaces it by the rows of that run (the clear button aside); a step that
\* aborts a run, at whatever stage, leaves it as it was.
C6_PublishOnCompletionOnly ==
  [][ /\ (results_df' # results_df =>
            \/ /\ pc = "build"
               /\ outcome'.kind = "done"
               /\ results_df' = BuildRows(run.details, run.subs_map,
                                         run.base_keywords, run.filters)
               /\ \A i \in 1..Len(results_df') :
                    results_df'[i].vid \in run.collected_ids
            \/ /\ pc = "idle"
               /\ outcome'.kind = "cleared"
               /\ results_df' = <<>>)
      /\ (pc = "build" =>
            /\ outcome'.kind = "done"
            /\ Len(results_df') <= Len(run.details))
      /\ (pc # "idle" /\ outcome'.kind \in AbortKinds =>
            results_df' = results_df)
    ]_vars

\* a run was aborted in the channel batch while earlier results were shown
C6_Witness ==
  /\ outcome.kind = "RuntimeError"
  /\ outcome.stage = "subs"
  /\ results_df # <<>>

\* C7: a walk returns at most max_results identifiers, none of them twice.
C7_WalkCappedDistinct ==
  wk.st = "ret" =>
    /\ Len(wk.ids) <= wk.max_results
    /\ \A i, j \in 1..Len(wk.ids) : i # j => wk.ids[i] # wk.ids[j]

\* the channel list and the keyword list are both empty for the run mode
EmptyForMode(rn) ==
  /\ IncludesChannels(rn.run_mode) => Len(rn.input_channels) = 0
  /\ IncludesKeywords(rn.run_mode) => Len(rn.base_keywords) = 0

\* C8: a run whose channel list and keyword list are both empty for its mode
\* stops at the input check: no such run is ever past it.
C8_EmptyInputFailsFast ==
  pc \notin {"idle", "lib"} => ~EmptyForMode(run)

Lengths(ss) == [i \in 1..Len(ss) |-> Len(ss[i])]

\* C9: the chunks sent so far are consecutive pieces of the input, all of 50
\* but possibly the last, of 1 to 50; the call in flight carries the last
\* one; at the return every identifier was sent, in ceil(n/50) calls, each
\* recorded once; 120 identifiers go out as 50, 50, 20 and none as no call.
C9_ChunksOfFifty ==
  LET n == Len(bt.ids)
      sent == bt.sent
      flat == Flatten(sent)
      endpoint == IF bt.kind = "videos" THEN S_videos ELSE S_channels
      recorded == IF bt.kind = "videos" THEN q_calls.videos
                  ELSE q_calls.channels
  IN /\ \A i \in 1..Len(sent) : Len(sent[i]) >= 1 /\ Len(sent[i]) <= 50
     /\ \A i \in 1..(Len(sent) - 1) : Len(sent[i]) = 50
     /\ Len(flat) <= n
     /\ flat = SubSeq(bt.ids, 1, Len(flat))
     /\ (bt.st = "run" =>
           /\ gw.endpoint = endpoint
           /\ gw.params.id = sent[Len(sent)]
           /\ recorded = Len(sent) - (IF gw.st = "ret" THEN 0 ELSE 1))
     /\ (bt.st = "ret" =>
           /\ flat = bt.ids
           /\ Len(sent) = (n + 49) \div 50
           /\ recorded = Len(sent)
           /\ (n = 0 => reqs = 0)
           /\ (n = 120 => Lengths(sent) = <<50, 50, 20>>))

\* the lookup of 120 identifiers returned
C9_Witness ==
  /\ bt.st = "ret"
  /\ Len(bt.ids) = 120
  /\ Len(bt.sent) = 3
  /\ Len(bt.acc) > 100

\* C10: with publishedAfter set and an order other than date, every search
\* request of the walk has order date; with publishedAfter not set, every
\* request has the order asked for.
C10_OrderOverride ==
  /\ \A i \in 1..Len(wk.sent) :
       /\ (wk.published_after # "" /\ wk.order # "date" =>
             wk.sent[i].order = "date")
       /\ (wk.published_after = "" => wk.sent[i].order = wk.order)
  /\ (wk.st = "run" =>
        /\ gw.st # "off"
        /\ gw.endpoint = S_search
        /\ gw.params = wk.sent[Len(wk.sent)])

\* a walk asked for viewCount with publishedAfter set has sent two requests
C10_Witness ==
  /\ wk.st = "ret"
  /\ wk.order = "viewCount"
  /\ wk.published_after # ""
  /\ Len(wk.sent) >= 2

\* the rows are built and the results tab is drawn
RowsBuilt == fn.name = "rows" /\ pc = "idle"

VidsOf(rows) == [i \in 1..Len(rows) |-> rows[i].vid]

\* the length in seconds that the duration of video v stands for
SecondsOf(v) ==
  CASE v % 5 = 1 -> 60
    [] v % 5 = 2 -> 30
    [] v % 5 = 4 -> 3661
    [] OTHER -> 0

\* keyword k, of one word, is in the title, the description or a tag
InTexts(k, d) ==
  \/ Contains(Lower(k), Lower(d.title))
  \/ Contains(Lower(k), Lower(d.description))
  \/ \E i \in 1..Len(d.tags) : Contains(Lower(k), Lower(d.tags[i]))

FormFactorPasses(d, f) ==
  \/ f.form_factor = "both"
  \/ f.form_factor = "shorts" /\ SecondsOf(d.id) < f.shorts_sec
  \/ f.form_factor = "long" /\ SecondsOf(d.id) >= f.shorts_sec

RatePasses(d, f) ==
  IF d.age_hours > 0 THEN d.views >= f.min_vph * d.age_hours
  ELSE d.views * 1000000 >= f.min_vph

KeywordsPass(d, f, kws) ==
  \/ kws = <<>>
  \/ f.strict_mode_key = "all" /\ \A i \in 1..Len(kws) : InTexts(kws[i], d)
  \/ f.strict_mode_key = "any" /\ \E i \in 1..Len(kws) : InTexts(kws[i], d)

\* C11: the videos that get a row are, in order, those that pass the form
\* factor stage and have views per hour >= the minimum, unless the override
\* is on, which skips both; and that pass the keyword stage whenever its
\* toggle is on, override or not.
C11_FilterChain ==
  RowsBuilt =>
    LET f == fn.filters
        Passes(d) ==
          /\ f.ignore_filters \/ (FormFactorPasses(d, f) /\ RatePasses(d, f))
          /\ f.strict_on => KeywordsPass(d, f, fn.base_keywords)
        passing == SelectSeq(fn.details, Passes)
    IN VidsOf(results_df) = [i \in 1..Len(passing) |-> passing[i].id]

\* the override is on, the keyword stage dropped a video and kept another
C11_Witness ==
  /\ RowsBuilt
  /\ fn.filters.ignore_filters
  /\ fn.filters.strict_on
  /\ fn.filters.form_factor = "shorts"
  /\ Len(fn.details) = 3
  /\ Len(results_df) = 1
  /\ SecondsOf(results_df[1].vid) >= fn.filters.shorts_sec

\* keyword k is in text t when both are lower-cased
FoldedIn(k, t) == Contains(Lower(k), Lower(t))

\* C12: contains_keywords accepts every text when there are no keywords, in
\* either mode; with keywords, in mode "all" it accepts exactly the texts
\* that hold every keyword, and in mode "any" exactly those that hold at
\* least one, as lower-cased substrings.
C12_ContainsKeywords ==
  (fn.name = "contains_keywords" /\ fn.st = "done") =>
    LET n == Len(fn.keywords) IN
      /\ n = 0 => fn.result
      /\ (n > 0 /\ fn.mode = "all") =>
           (fn.result <=> \A i \in 1..n : FoldedIn(fn.keywords[i], fn.text))
      /\ (n > 0 /\ fn.mode = "any") =>
           (fn.result <=> \E i \in 1..n : FoldedIn(fn.keywords[i], fn.text))

\* mode "all" rejected a text that holds one keyword and lacks the other
C12_Witness ==
  /\ fn.name = "contains_keywords"
  /\ fn.st = "done"
  /\ fn.mode = "all"
  /\ Len(fn.keywords) = 2
  /\ FoldedIn(fn.keywords[1], fn.text)
  /\ ~FoldedIn(fn.keywords[2], fn.text)
  /\ ~fn.result

\* the number a text of digits stands for; -1 if it is no such text
NumberOf(t) ==
  IF t # <<>> /\ \A i \in 1..Len(t) : IsDigit(t[i]) THEN IntOf(t) ELSE 0 - 1

\* the seconds a clock text HH:MM:SS or MM:SS stands for; -1 if it is not
\* one: parts of two digits at least, minutes and seconds below 60
ClockSeconds(t) ==
  LET parts == SplitAt(t, {":"}, <<>>)
      n == Len(parts)
      Ok(i) == Len(parts[i]) >= 2 /\ NumberOf(parts[i]) >= 0
      Low(i) == Len(parts[i]) = 2 /\ NumberOf(parts[i]) < 60
  IN IF n = 3 /\ Ok(1) /\ Ok(2) /\ Ok(3) /\ Low(2) /\ Low(3)
     THEN NumberOf(parts[1]) * 3600 + NumberOf(parts[2]) * 60
            + NumberOf(parts[3])
     ELSE IF n = 2 /\ Ok(1) /\ Ok(2) /\ Low(1) /\ Low(2)
     THEN NumberOf(parts[1]) * 60 + NumberOf(parts[2])
     ELSE 0 - 1

PartValue(n) == IF n < 0 THEN 0 ELSE n

\* C13: a duration written with hours, minutes and seconds, each optional,
\* parses to hours * 3600 + minutes * 60 + seconds, and the clock text made
\* of that total stands for the same number of seconds; a duration that is
\* absent or not of that form parses to 0.
C13_DurationRoundTrip ==
  (fn.name = "duration" /\ fn.st = "done") =>
    /\ fn.kind = "parts" =>
         fn.seconds = PartValue(fn.h) * 3600 + PartValue(fn.m) * 60
                        + PartValue(fn.sec)
    /\ fn.kind \in {"malformed", "absent"} => fn.seconds = 0
    /\ ClockSeconds(fn.clock) = fn.seconds

\* 100 hours, 90 minutes and 3600 seconds made a clock text of three parts
C13_Witness ==
  /\ fn.name = "duration"
  /\ fn.st = "done"
  /\ fn.h = 100
  /\ fn.m = 90
  /\ fn.sec = 3600
  /\ fn.seconds = 369000
  /\ Len(fn.clock) = 9

\* the subscriber count the map holds for a channel; 0 if it holds none
SubscribersOf(ch, subs_map) ==
  IF \E i \in 1..Len(subs_map) : subs_map[i].id = ch
  THEN subs_map[CHOOSE i \in 1..Len(subs_map) : subs_map[i].id = ch].subs
  ELSE 0

\* the ratio in thousandths is the one nearest to views / subs
NearestRatio(row, subs) ==
  LET diff == row.VS * subs - 1000 * row.Views IN
    2 * diff <= subs /\ 2 * (0 - diff) <= subs

\* C14, as amended: the ratio of a row is None exactly when its channel has
\* 0 subscribers or is not in the subscriber map; otherwise it is views
\* divided by the subscriber count, rounded to three decimals.
C14_RatioRounded ==
  RowsBuilt =>
    \A i \in 1..Len(results_df) :
      LET row == results_df[i]
          subs == SubscribersOf(row.Channel, fn.subs_map)
      IN /\ row.Subscribers = subs
         /\ row.has_vs <=> subs > 0
         /\ row.has_vs => NearestRatio(row, subs)

\* C14, as stated: the ratio of a row is None exactly when its channel has 0
\* subscribers or is not in the map, and otherwise is views / subs.
C14_RatioExact ==
  RowsBuilt =>
    \A i \in 1..Len(results_df) :
      LET row == results_df[i]
          subs == SubscribersOf(row.Channel, fn.subs_map)
      IN /\ row.has_vs <=> subs > 0
         /\ row.has_vs => row.VS * subs = 1000 * row.Views

\* a row of a channel not in the map has no ratio, next to a row whose ratio
\* of 1 / 3000 is stored as 0
C14_Witness ==
  /\ RowsBuilt
  /\ \E i, j \in 1..Len(results_df) :
       /\ ~results_df[i].has_vs
       /\ SubscribersOf(results_df[i].Channel, fn.subs_map) = 0
       /\ results_df[j].has_vs
       /\ results_df[j].Subscribers = 3000
       /\ results_df[j].Views = 1
       /\ results_df[j].VS = 0

\* where the row of video vid is in the unsorted result set
PlaceOf(vid) == CHOOSE i \in 1..Len(results_df) : results_df[i].vid = vid

\* C15: the ranked payload holds the rows of the result set, each once, by
\* views per hour descending, then by views descending, and rows equal on
\* both in the order they have in the result set.
C15_DefaultRanking ==
  RowsBuilt =>
    LET n == Len(results_df) IN
      /\ Len(payload_cache) = n
      /\ \A i \in 1..n :
           \E k \in 1..n :
             /\ payload_cache[k].vid = results_df[i].vid
             /\ payload_cache[k].vph = results_df[i].Vph
             /\ payload_cache[k].views = results_df[i].Views
      /\ \A i, j \in 1..n :
           i < j =>
             LET a == payload_cache[i]
                 b == payload_cache[j]
             IN \/ a.vph > b.vph
                \/ a.vph = b.vph /\ a.views > b.views
                \/ /\ a.vph = b.vph
                   /\ a.views = b.views
                   /\ PlaceOf(a.vid) < PlaceOf(b.vid)

\* videos 3 and 1 are equal on both keys, video 2 has the same views per
\* hour with fewer views: 3, 2, 1 is ranked 3, 1, 2
C15_Witness ==
  /\ RowsBuilt
  /\ VidsOf(results_df) = <<3, 2, 1>>
  /\ VidsOf(payload_cache) = <<3, 1, 2>>
  /\ payload_cache[1].vph = payload_cache[3].vph
  /\ payload_cache[2].views > payload_cache[3].views

\* n is the whole number of seconds in wait_minutes, which is in units of
\* 1 / WaitDenom minute
WholeSeconds(n, wait_minutes) ==
  /\ n >= 0
  /\ n * WaitDenom <= wait_minutes * 60
  /\ wait_minutes * 60 < (n + 1) * WaitDenom

\* C16: a call that starts to wait sets api_waiting and the reason, with
\* floor(wait_minutes * 60) seconds to count; each tick takes one second off;
\* the wait ends at 0, clears api_waiting and sends the same endpoint and
\* parameters again; api_waiting is true exactly while a call waits, so never
\* once a call has returned or raised.
C16_WaitAndRetry ==
  [][ /\ (gw.st = "send" /\ gw'.st = "wait") =>
            /\ QuotaFailure(r')
            /\ api_waiting'
            /\ api_wait_reason' = gw.endpoint \o <<":", " ">> \o ErrReason(r')
            /\ WholeSeconds(gw'.left, gw.wait_minutes)
            /\ gw'.endpoint = gw.endpoint
            /\ gw'.params = gw.params
      /\ (gw.st = "wait" /\ gw'.st = "wait") =>
            /\ gw'.left = gw.left - 1
            /\ gw'.left >= 0
            /\ gw'.endpoint = gw.endpoint
            /\ gw'.params = gw.params
      /\ (gw.st = "wait" /\ gw'.st # "wait") =>
            /\ gw.left = 0
            /\ gw'.st = "send"
            /\ gw'.endpoint = gw.endpoint
            /\ gw'.params = gw.params
      /\ api_waiting' <=> gw'.st = "wait"
    ]_vars

\* a wait of 2.5 seconds has one of its two ticks left
C16_Witness ==
  /\ gw.st = "wait"
  /\ gw.wait_minutes = 5
  /\ gw.left = 1
  /\ api_waiting
  /\ api_wait_reason # <<>>

\* the first n of list
FirstOf(list, n) == SubSeq(list, 1, IF n < Len(list) THEN n ELSE Len(list))

\* C17: when a page arrives the walk either returns, because with that page
\* it holds max_results identifiers (it keeps the first max_results) or
\* because the page has no cursor, or else sends one more search request,
\* the same but for the page token, which is the cursor that page returned;
\* at any other time it sends nothing, and is given up if the call raises;
\* the pages that arrived are as many as the search calls recorded, no other
\* kind being called.
C17_WalkPagination ==
  [][ wk.st = "run" =>
        LET got == wk.ids \o reply.items
            n == Len(wk.sent)
        IN /\ q_calls'.videos = 0 /\ q_calls'.channels = 0
           /\ gw.st # "ret" =>
                /\ wk' = wk \/ (wk' = WkOff /\ outcome'.kind \in AbortKinds)
                /\ gw'.st = "ret" => q_calls'.search = n
                /\ gw'.st # "ret" => q_calls'.search = n - 1
           /\ gw.st = "ret" =>
                /\ q_calls' = q_calls
                /\ q_calls.search = n
                /\ IF Len(got) >= wk.max_results
                   THEN /\ wk'.st = "ret"
                        /\ wk'.ids = FirstOf(got, wk.max_results)
                        /\ wk'.sent = wk.sent
                        /\ gw'.st = "off"
                   ELSE IF reply.next = ""
                   THEN /\ wk'.st = "ret"
                        /\ wk'.ids = got
                        /\ wk'.sent = wk.sent
                        /\ gw'.st = "off"
                   ELSE /\ wk'.st = "run"
                        /\ wk'.ids = got
                        /\ wk'.sent =
                             Append(wk.sent, [wk.sent[n] EXCEPT
                                                !.pageToken = reply.next])
                        /\ gw'.st = "send"
                        /\ gw'.endpoint = S_search
                        /\ gw'.params = wk'.sent[n + 1]
    ]_vars

\* a walk for 10 returned with its fourth page, of which it kept one
C17_Witness ==
  /\ wk.st = "ret"
  /\ wk.max_results = 10
  /\ Len(wk.ids) = 10
  /\ Len(wk.sent) = 4
  /\ wk.sent[2].pageToken = "T1"
  /\ wk.sent[3].pageToken = "T2"
  /\ q_calls.search = 4

\* every region with every entry of args: regions outside, args inside
Pairs(regions, args) ==
  [k \in 1..(Len(regions) * Len(args)) |->
     [region |-> regions[((k - 1) \div Len(args)) + 1],
      arg |-> args[((k - 1) % Len(args)) + 1]]]

NoDuplicates(list) ==
  \A i, j \in 1..Len(list) : i # j => list[i] # list[j]

IsHandle(token) == token # <<>> /\ Head(token) = "@"

\* tokens with each handle replaced by what its lookup found, or left out
\* if it found nothing; found holds the lookups of the handles, in order
RECURSIVE Resolved(_, _)
Resolved(tokens, found) ==
  IF tokens = <<>> THEN <<>>
  ELSE IF ~IsHandle(Head(tokens))
  THEN <<Head(tokens)>> \o Resolved(Tail(tokens), found)
  ELSE (IF Head(found).ch_id # <<>> THEN <<Head(found).ch_id>> ELSE <<>>)
         \o Resolved(Tail(tokens), Tail(found))

\* C19: resolution calls the gateway only for a token that begins with "@",
\* with kind search, once for each such token in turn; when it is over the
\* lookups made are those of the "@" tokens, one each, and the resolved list
\* is the input list in its order, the other tokens unchanged, each handle
\* replaced by the identifier found or left out if none was found, the run
\* going on.
C19_ChannelResolution ==
  LET tokens == run.input_channels
      handles == SelectSeq(tokens, IsHandle)
      asked == [i \in 1..Len(run.lookups) |-> run.lookups[i].q]
  IN /\ (pc = "resolve" /\ gw.st # "off") =>
          /\ run.ti <= Len(tokens)
          /\ IsHandle(tokens[run.ti])
          /\ gw.endpoint = S_search
          /\ gw.params.type = "channel"
          /\ gw.params.q = tokens[run.ti]
          /\ asked = SelectSeq(SubSeq(tokens, 1, run.ti - 1), IsHandle)
     /\ pc \in {"fan_ch", "fan_kw", "details", "subs", "build"} =>
          /\ asked = handles
          /\ run.channels = Resolved(tokens, run.lookups)
          /\ outcome.kind = "running"

\* of a handle and an identifier the handle was not found, and the run went
\* on with the identifier alone
C19_Witness ==
  /\ pc = "fan_kw"
  /\ Len(run.input_channels) = 2
  /\ Len(run.lookups) = 1
  /\ run.lookups[1].ch_id = <<>>
  /\ run.channels = <<T_UC2>>
  /\ Len(run.walks) = 1

\* C20: no step of a session lowers a call counter, the unit total or the
\* length of the log, and the log only grows at its end; the clear button
\* empties results_df and payload_cache and leaves the ledger as it is; the
\* step in which a run fails leaves the ledger as it is, with the charges of
\* the calls that returned before.
C20_LedgerNeverDecreases ==
  [][ /\ q_calls'.search >= q_calls.search
      /\ q_calls'.videos >= q_calls.videos
      /\ q_calls'.channels >= q_calls.channels
      /\ q_units' >= q_units
      /\ Len(q_log') >= Len(q_log)
      /\ SubSeq(q_log', 1, Len(q_log)) = q_log
      /\ outcome'.kind = "cleared" =>
           /\ results_df' = <<>>
           /\ payload_cache' = <<>>
           /\ UNCHANGED ledger
      /\ (outcome.kind = "running" /\ outcome'.kind \in AbortKinds) =>
           /\ pc' = "idle"
           /\ UNCHANGED ledger
    ]_vars

\* a run failed at the detail lookup with nothing published, in a session
\* charged before for search and detail calls; the ledger still holds them
C20_Witness ==
  /\ outcome.kind \in AbortKinds
  /\ outcome.stage = "details"
  /\ results_df = <<>>
  /\ payload_cache = <<>>
  /\ q_calls.search >= 2
  /\ q_calls.videos >= 1
  /\ q_units = 100 * q_calls.search + q_calls.videos + q_calls.channels
  /\ Len(q_log) = q_calls.search + q_calls.videos + q_calls.channels

\* payload entry e shows row
ShowsRow(e, row) ==
  /\ e.vid = row.vid
  /\ e.channel = row.Channel
  /\ e.title = row.Title
  /\ e.views = row.Views
  /\ e.vph = row.Vph
  /\ e.subs = row.Subscribers
  /\ e.has_vs = row.has_vs
  /\ e.vs = row.VS
  /\ e.duration = row.Duration
  /\ e.duration_sec = row.Duration_sec

\* C21: payload_cache is empty, or it holds one entry for each row of the
\* results_df now published and nothing else, each entry showing its row;
\* so after a run or a clear has changed results_df, no entry of an earlier
\* result set is left in it.
C21_PayloadOfCurrentResults ==
  payload_cache # <<>> =>
    /\ Len(payload_cache) = Len(results_df)
    /\ \A i \in 1..Len(results_df) :
         \E k \in 1..Len(payload_cache) :
           ShowsRow(payload_cache[k], results_df[i])
    /\ \A k \in 1..Len(payload_cache) :
         \E i \in 1..Len(results_df) :
           ShowsRow(payload_cache[k], results_df[i])
    /\ NoDuplicates(VidsOf(payload_cache))

\* a second run of the session was completed and its rows are shown
C21_Witness ==
  /\ outcome.kind = "done"
  /\ q_calls.videos = 2
  /\ q_calls.channels = 2
  /\ results_df # <<>>
  /\ payload_cache # <<>>
  /\ Len(payload_cache) = Len(results_df)

====
